---- MODULE Spec2Model ----
(***************************************************************************)
(* The agent-activity query of holochain_cascade                           *)
(* (authority/get_agent_activity_query/hashes.rs): one execution of        *)
(* GetAgentActivityQuery as a state machine.  The store delivers the rows  *)
(* of the SELECT one at a time, each row is projected by as_map and folded *)
(* by fold, and at the end of the stream render builds the response.       *)
(***************************************************************************)
EXTENDS Integers, Sequences, FiniteSets, TLC

\* ------------------------------------------------------------------ bounds

\* Longest row stream the store delivers in one execution of the query that
\* requests everything (Spec).
MaxRows == 3
\* Longest row stream delivered when the execution may be of any query
\* (SpecQueries).
MaxQueryRows == 2
\* Longest row stream delivered when the rows come in any order
\* (SpecUnordered).
MaxUnorderedRows == 3
\* Chain sequence numbers are 1..MaxSeq.
MaxSeq == 2
\* Distinct actions (hashes) that claim the same sequence number.
MaxVariant == 2

\* ------------------------------------------------------------ data model

\* Option<T>
None == [some |-> FALSE]
Some(x) == [some |-> TRUE, val |-> x]

Seqs == 1..MaxSeq

\* An action hash is content-derived, so it determines the action's sequence
\* number: the hash of variant v of the action at sequence s is <<s, v>>.
ActionHashes == Seqs \X (1..MaxVariant)

\* ActionHashed: the decoded action with its hash.
ActionHashed(h) == [action_seq |-> h[1], hash |-> h]

\* Option<ValidationStatus> as stored in DhtOp.validation_status: the two
\* statuses fold names, Abandoned for any other status, and NULL for None.
ValidationStatuses == {"Valid", "Rejected", "Abandoned", "NULL"}

\* The columns as_map reads, in the order it reads them.
Columns == {"validation_status", "hash", "action_blob", "when_integrated"}

\* A row of the SELECT.  undecodable names the column whose value cannot be
\* decoded, "none" when every column decodes.  Undecodable rows are drawn as
\* rows that would otherwise be integrated valid records.
Rows ==
    { r \in [hash : ActionHashes,
             validation_status : ValidationStatuses,
             when_integrated : {"NULL", "TS"},
             undecodable : Columns \cup {"none"}] :
        r.undecodable # "none"
            => (r.validation_status = "Valid" /\ r.when_integrated = "TS") }

\* Action.seq of a row, the ORDER BY key.
RowSeq(r) == r.hash[1]

\* Hashes are opaque values that the code only compares for equality, so the
\* variants of a sequence number are named in the order of their first
\* delivery: variant v + 1 is not delivered before variant v.
NamedInOrder(delivered, row) ==
    IF row.hash[2] = 1 THEN TRUE
    ELSE \E i \in 1..Len(delivered) :
            delivered[i].hash = <<row.hash[1], row.hash[2] - 1>>

\* ChainQueryFilter: the sequence range restriction.
Filters ==
    {[bounded |-> FALSE, lo |-> 1, hi |-> 1]}
        \cup [bounded : {TRUE}, lo : Seqs, hi : Seqs]

\* GetActivityOptions
Options == [include_valid_activity : BOOLEAN, include_rejected_activity : BOOLEAN]

\* ChainStatus
Empty == [tag |-> "Empty"]
Valid(head) == [tag |-> "Valid", head |-> head]
Invalid(head) == [tag |-> "Invalid", head |-> head]
Forked(fork) == [tag |-> "Forked", fork |-> fork]
\* The outcome of a failed expect(): the thread panics.
Panic == [tag |-> "Panic"]

ChainHead(a) == [action_seq |-> a.action_seq, hash |-> a.hash]

\* ChainItems
NotRequested == [tag |-> "NotRequested"]
Hashes(items) == [tag |-> "Hashes", items |-> items]

Last(s) == s[Len(s)]

\* ----------------------------------------------------------------- state

VARIABLES
    query,      \* the GetAgentActivityQuery: agent, filter, options
    stream,     \* the rows the store has delivered so far, in order
    state,      \* the fold's State
    pc,         \* "folding", "rendered", "failed" or "panicked"
    output      \* Option<AgentActivityResponse>

vars == <<query, stream, state, pc, output>>

\* GetAgentActivityQuery::new
new(agent, filter, options) ==
    [agent |-> agent, filter |-> filter, options |-> options]

\* State::default(), returned by init_fold.
init_fold ==
    [valid |-> <<>>, rejected |-> <<>>, pending |-> <<>>, status |-> None]

\* query() without its ORDER BY: the store delivers the rows in any order.
query_unordered(delivered, row) == TRUE

\* The ORDER BY Action.seq ASC of query(): a row may follow the rows already
\* delivered only if its sequence number is not smaller than the last one's.
query_order(delivered, row) ==
    IF delivered = <<>> THEN TRUE
    ELSE RowSeq(Last(delivered)) <= RowSeq(row)

\* as_map reading when_integrated leniently: a value that does not decode
\* counts as no timestamp, and the row becomes a Pending item.
as_map_lenient(row) ==
    IF row.undecodable \notin {"none", "when_integrated"}
    THEN [ok |-> FALSE, err |-> row.undecodable]
    ELSE [ok |-> TRUE,
          item |-> [validation_status |-> row.validation_status,
                    kind |-> IF row.when_integrated # "NULL"
                                /\ row.undecodable = "none"
                             THEN "Integrated" ELSE "Pending",
                    action |-> ActionHashed(row.hash)]]

\* as_map with the branches of the integrated test exchanged.
as_map_inverted(row) ==
    IF row.undecodable # "none"
    THEN [ok |-> FALSE, err |-> row.undecodable]
    ELSE [ok |-> TRUE,
          item |-> [validation_status |-> row.validation_status,
                    kind |-> IF row.when_integrated # "NULL"
                             THEN "Pending" ELSE "Integrated",
                    action |-> ActionHashed(row.hash)]]

\* as_map: Ok(item) or Err(column).
as_map(row) ==
    IF row.undecodable # "none"
    THEN [ok |-> FALSE, err |-> row.undecodable]
    ELSE [ok |-> TRUE,
          item |-> [validation_status |-> row.validation_status,
                    kind |-> IF row.when_integrated # "NULL"
                             THEN "Integrated" ELSE "Pending",
                    action |-> ActionHashed(row.hash)]]

\* fold with the Valid arm deciding Forked without the is_none() check.
fold_refork(st, item) ==
    LET action == item.action
        seq == action.action_seq
    IN
    IF item.validation_status = "Valid" /\ item.kind = "Integrated"
    THEN
        LET status == IF st.valid # <<>> /\ seq = Last(st.valid).action_seq
                      THEN Some(Forked([fork_seq |-> seq,
                                        first_action |-> action.hash,
                                        second_action |-> Last(st.valid).hash]))
                      ELSE st.status
        IN [st EXCEPT !.status = status, !.valid = Append(@, action)]
    ELSE IF item.validation_status = "Rejected" /\ item.kind = "Integrated"
    THEN
        LET status == IF ~st.status.some
                      THEN Some(Invalid(ChainHead(action)))
                      ELSE st.status
        IN [st EXCEPT !.status = status, !.rejected = Append(@, action)]
    ELSE IF item.kind = "Pending"
    THEN [st EXCEPT !.pending = Append(@, action)]
    ELSE st

\* fold with first_action and second_action exchanged.
fold_swapped(st, item) ==
    LET action == item.action
        seq == action.action_seq
    IN
    IF item.validation_status = "Valid" /\ item.kind = "Integrated"
    THEN
        LET fork == IF st.valid # <<>> /\ seq = Last(st.valid).action_seq
                    THEN Some(Last(st.valid)) ELSE None
            status == IF ~st.status.some /\ fork.some
                      THEN Some(Forked([fork_seq |-> seq,
                                        first_action |-> fork.val.hash,
                                        second_action |-> action.hash]))
                      ELSE st.status
        IN [st EXCEPT !.status = status, !.valid = Append(@, action)]
    ELSE IF item.validation_status = "Rejected" /\ item.kind = "Integrated"
    THEN
        LET status == IF ~st.status.some
                      THEN Some(Invalid(ChainHead(action)))
                      ELSE st.status
        IN [st EXCEPT !.status = status, !.rejected = Append(@, action)]
    ELSE IF item.kind = "Pending"
    THEN [st EXCEPT !.pending = Append(@, action)]
    ELSE st

\* fold with the Rejected arm deciding Invalid without the is_none() check.
fold_overwrite(st, item) ==
    LET action == item.action
        seq == action.action_seq
    IN
    IF item.validation_status = "Valid" /\ item.kind = "Integrated"
    THEN
        LET fork == IF st.valid # <<>> /\ seq = Last(st.valid).action_seq
                    THEN Some(Last(st.valid)) ELSE None
            status == IF ~st.status.some /\ fork.some
                      THEN Some(Forked([fork_seq |-> seq,
                                        first_action |-> action.hash,
                                        second_action |-> fork.val.hash]))
                      ELSE st.status
        IN [st EXCEPT !.status = status, !.valid = Append(@, action)]
    ELSE IF item.validation_status = "Rejected" /\ item.kind = "Integrated"
    THEN [st EXCEPT !.status = Some(Invalid(ChainHead(action))),
                    !.rejected = Append(@, action)]
    ELSE IF item.kind = "Pending"
    THEN [st EXCEPT !.pending = Append(@, action)]
    ELSE st

\* fold matching on the validation status alone, whatever the item's kind.
fold_ignore_integration(st, item) ==
    LET action == item.action
        seq == action.action_seq
    IN
    IF item.validation_status = "Valid"
    THEN
        LET fork == IF st.valid # <<>> /\ seq = Last(st.valid).action_seq
                    THEN Some(Last(st.valid)) ELSE None
            status == IF ~st.status.some /\ fork.some
                      THEN Some(Forked([fork_seq |-> seq,
                                        first_action |-> action.hash,
                                        second_action |-> fork.val.hash]))
                      ELSE st.status
        IN [st EXCEPT !.status = status, !.valid = Append(@, action)]
    ELSE IF item.validation_status = "Rejected"
    THEN
        LET status == IF ~st.status.some
                      THEN Some(Invalid(ChainHead(action)))
                      ELSE st.status
        IN [st EXCEPT !.status = status, !.rejected = Append(@, action)]
    ELSE IF item.kind = "Pending"
    THEN [st EXCEPT !.pending = Append(@, action)]
    ELSE st

\* fold with the Rejected arm's push moved inside the is_none() check.
fold_push_if_undecided(st, item) ==
    LET action == item.action
        seq == action.action_seq
    IN
    IF item.validation_status = "Valid" /\ item.kind = "Integrated"
    THEN
        LET fork == IF st.valid # <<>> /\ seq = Last(st.valid).action_seq
                    THEN Some(Last(st.valid)) ELSE None
            status == IF ~st.status.some /\ fork.some
                      THEN Some(Forked([fork_seq |-> seq,
                                        first_action |-> action.hash,
                                        second_action |-> fork.val.hash]))
                      ELSE st.status
        IN [st EXCEPT !.status = status, !.valid = Append(@, action)]
    ELSE IF item.validation_status = "Rejected" /\ item.kind = "Integrated"
    THEN
        IF ~st.status.some
        THEN [st EXCEPT !.status = Some(Invalid(ChainHead(action))),
                        !.rejected = Append(@, action)]
        ELSE st
    ELSE IF item.kind = "Pending"
    THEN [st EXCEPT !.pending = Append(@, action)]
    ELSE st

\* fold with the Valid arm storing Valid(head) while no fork is seen.
fold_store_valid(st, item) ==
    LET action == item.action
        seq == action.action_seq
    IN
    IF item.validation_status = "Valid" /\ item.kind = "Integrated"
    THEN
        LET fork == IF st.valid # <<>> /\ seq = Last(st.valid).action_seq
                    THEN Some(Last(st.valid)) ELSE None
            status == IF ~st.status.some /\ fork.some
                      THEN Some(Forked([fork_seq |-> seq,
                                        first_action |-> action.hash,
                                        second_action |-> fork.val.hash]))
                      ELSE IF ~st.status.some
                      THEN Some(Valid(ChainHead(action)))
                      ELSE st.status
        IN [st EXCEPT !.status = status, !.valid = Append(@, action)]
    ELSE IF item.validation_status = "Rejected" /\ item.kind = "Integrated"
    THEN
        LET status == IF ~st.status.some
                      THEN Some(Invalid(ChainHead(action)))
                      ELSE st.status
        IN [st EXCEPT !.status = status, !.rejected = Append(@, action)]
    ELSE IF item.kind = "Pending"
    THEN [st EXCEPT !.pending = Append(@, action)]
    ELSE st

\* fold with the Rejected arm's test inverted to is_some().
fold_inverted_check(st, item) ==
    LET action == item.action
        seq == action.action_seq
    IN
    IF item.validation_status = "Valid" /\ item.kind = "Integrated"
    THEN
        LET fork == IF st.valid # <<>> /\ seq = Last(st.valid).action_seq
                    THEN Some(Last(st.valid)) ELSE None
            status == IF ~st.status.some /\ fork.some
                      THEN Some(Forked([fork_seq |-> seq,
                                        first_action |-> action.hash,
                                        second_action |-> fork.val.hash]))
                      ELSE st.status
        IN [st EXCEPT !.status = status, !.valid = Append(@, action)]
    ELSE IF item.validation_status = "Rejected" /\ item.kind = "Integrated"
    THEN
        LET status == IF st.status.some
                      THEN Some(Invalid(ChainHead(action)))
                      ELSE st.status
        IN [st EXCEPT !.status = status, !.rejected = Append(@, action)]
    ELSE IF item.kind = "Pending"
    THEN [st EXCEPT !.pending = Append(@, action)]
    ELSE st

\* fold
fold(st, item) ==
    LET action == item.action
        seq == action.action_seq
    IN
    IF item.validation_status = "Valid" /\ item.kind = "Integrated"
    THEN
        LET fork == IF st.valid # <<>> /\ seq = Last(st.valid).action_seq
                    THEN Some(Last(st.valid)) ELSE None
            status == IF ~st.status.some /\ fork.some
                      THEN Some(Forked([fork_seq |-> seq,
                                        first_action |-> action.hash,
                                        second_action |-> fork.val.hash]))
                      ELSE st.status
        IN [st EXCEPT !.status = status, !.valid = Append(@, action)]
    ELSE IF item.validation_status = "Rejected" /\ item.kind = "Integrated"
    THEN
        LET status == IF ~st.status.some
                      THEN Some(Invalid(ChainHead(action)))
                      ELSE st.status
        IN [st EXCEPT !.status = status, !.rejected = Append(@, action)]
    ELSE IF item.kind = "Pending"
    THEN [st EXCEPT !.pending = Append(@, action)]
    ELSE st

\* compute_chain_status taking the head from the first valid entry.
compute_chain_status_first(st) ==
    IF st.status.some
    THEN st.status.val
    ELSE IF st.valid = <<>> /\ st.rejected = <<>>
    THEN Empty
    ELSE IF st.valid = <<>>
    THEN Panic
    ELSE Valid(ChainHead(Head(st.valid)))

\* compute_chain_status
compute_chain_status(st) ==
    IF st.status.some
    THEN st.status.val
    ELSE IF st.valid = <<>> /\ st.rejected = <<>>
    THEN Empty
    ELSE IF st.valid = <<>>
    THEN Panic
    ELSE Valid(ChainHead(Last(st.valid)))

\* check_highest whose Greater arm forgets hashes.clear().
check_highest_no_clear(acc, seq, hash) ==
    IF ~acc.highest_observed.some
    THEN [highest_observed |-> Some(seq), hashes |-> Append(acc.hashes, hash)]
    ELSE
        LET last == acc.highest_observed.val IN
        IF seq < last THEN acc
        ELSE IF seq = last
        THEN [acc EXCEPT !.hashes = Append(@, hash)]
        ELSE [highest_observed |-> Some(seq), hashes |-> Append(acc.hashes, hash)]

\* The closure check_highest of compute_highest_observed: acc holds the two
\* locals highest_observed and hashes.
check_highest(acc, seq, hash) ==
    IF ~acc.highest_observed.some
    THEN [highest_observed |-> Some(seq), hashes |-> Append(acc.hashes, hash)]
    ELSE
        LET last == acc.highest_observed.val IN
        IF seq < last THEN acc
        ELSE IF seq = last
        THEN [acc EXCEPT !.hashes = Append(@, hash)]
        ELSE [highest_observed |-> Some(seq), hashes |-> <<hash>>]

\* One `if let Some(x) = partition.last() { check_highest(..) }`.
check_last(acc, partition) ==
    IF partition = <<>> THEN acc
    ELSE check_highest(acc, Last(partition).action_seq, Last(partition).hash)

\* compute_highest_observed
compute_highest_observed(st) ==
    LET a0 == [highest_observed |-> None, hashes |-> <<>>]
        a1 == check_last(a0, st.valid)
        a2 == check_last(a1, st.rejected)
        a3 == check_last(a2, st.pending)
    IN IF a3.highest_observed.some
       THEN Some([action_seq |-> a3.highest_observed.val, hash |-> a3.hashes])
       ELSE None

\* ChainQueryFilter::filter_actions: keeps, in order, the actions the
\* sequence range admits.
in_range(filter, a) ==
    ~filter.bounded \/ (filter.lo <= a.action_seq /\ a.action_seq <= filter.hi)

filter_actions(filter, actions) ==
    SelectSeq(actions, LAMBDA a : in_range(filter, a))

\* .map(|h| (h.action_seq(), h.into_hash())).collect()
to_items(actions) ==
    [i \in 1..Len(actions) |-> <<actions[i].action_seq, actions[i].hash>>]

\* render gating rejected_activity on include_valid_activity.
render_one_gate(q, st) ==
    LET highest_observed == compute_highest_observed(st)
        status == compute_chain_status(st)
        valid_activity ==
            IF q.options.include_valid_activity
            THEN Hashes(to_items(filter_actions(q.filter, st.valid)))
            ELSE NotRequested
        rejected_activity ==
            IF q.options.include_valid_activity
            THEN Hashes(to_items(filter_actions(q.filter, st.rejected)))
            ELSE NotRequested
    IN [agent |-> q.agent,
        valid_activity |-> valid_activity,
        rejected_activity |-> rejected_activity,
        status |-> status,
        highest_observed |-> highest_observed]

\* render applying the filter to the partitions before the status and the
\* highest observed are computed.
render_filter_first(q, st) ==
    LET kept == [st EXCEPT !.valid = filter_actions(q.filter, st.valid),
                           !.rejected = filter_actions(q.filter, st.rejected)]
        highest_observed == compute_highest_observed(kept)
        status == compute_chain_status(kept)
        valid_activity ==
            IF q.options.include_valid_activity
            THEN Hashes(to_items(kept.valid))
            ELSE NotRequested
        rejected_activity ==
            IF q.options.include_rejected_activity
            THEN Hashes(to_items(kept.rejected))
            ELSE NotRequested
    IN [agent |-> q.agent,
        valid_activity |-> valid_activity,
        rejected_activity |-> rejected_activity,
        status |-> status,
        highest_observed |-> highest_observed]

\* render, when compute_chain_status does not panic.
render(q, st) ==
    LET highest_observed == compute_highest_observed(st)
        status == compute_chain_status(st)
        valid_activity ==
            IF q.options.include_valid_activity
            THEN Hashes(to_items(filter_actions(q.filter, st.valid)))
            ELSE NotRequested
        rejected_activity ==
            IF q.options.include_rejected_activity
            THEN Hashes(to_items(filter_actions(q.filter, st.rejected)))
            ELSE NotRequested
    IN [agent |-> q.agent,
        valid_activity |-> valid_activity,
        rejected_activity |-> rejected_activity,
        status |-> status,
        highest_observed |-> highest_observed]

\* ------------------------------------------------------------ execution

\* The queries a caller can construct.
Queries == {new("agent", f, o) : f \in Filters, o \in Options}

\* The query with no range restriction that requests both activity lists.
FullQuery ==
    new("agent",
        [bounded |-> FALSE, lo |-> 1, hi |-> 1],
        [include_valid_activity |-> TRUE, include_rejected_activity |-> TRUE])

\* The execution starts from a constructed query and init_fold's state.
Start ==
    /\ stream = <<>>
    /\ state = init_fold
    /\ pc = "folding"
    /\ output = None

Init == query = FullQuery /\ Start

InitQueries == query \in Queries /\ Start

\* The store delivers the next row, as_map decodes it and fold consumes it.
FoldRow(limit) ==
    /\ pc = "folding"
    /\ Len(stream) < limit
    /\ \E row \in Rows :
        /\ query_order(stream, row)
        /\ NamedInOrder(stream, row)
        /\ as_map(row).ok
        /\ stream' = Append(stream, row)
        /\ state' = fold(state, as_map(row).item)
    /\ UNCHANGED <<query, pc, output>>

\* The store delivers the next row and as_map fails on it: the error ends the
\* query.
MapError(limit) ==
    /\ pc = "folding"
    /\ Len(stream) < limit
    /\ \E row \in Rows :
        /\ query_order(stream, row)
        /\ NamedInOrder(stream, row)
        /\ ~as_map(row).ok
        /\ stream' = Append(stream, row)
    /\ pc' = "failed"
    /\ UNCHANGED <<query, state, output>>

\* The stream is exhausted: render builds the response.
Render ==
    /\ pc = "folding"
    /\ IF compute_chain_status(state) = Panic
       THEN pc' = "panicked" /\ output' = None
       ELSE pc' = "rendered" /\ output' = Some(render(query, state))
    /\ UNCHANGED <<query, stream, state>>

Next == FoldRow(MaxRows) \/ MapError(MaxRows) \/ Render

\* One execution of the query that requests everything.
Spec == Init /\ [][Next]_vars

NextQueries == FoldRow(MaxQueryRows) \/ MapError(MaxQueryRows) \/ Render

\* One execution of any query.
SpecQueries == InitQueries /\ [][NextQueries]_vars

\* fold and render are trait methods that do not check the order of their
\* items: the next row is delivered whatever its sequence number.
FoldRowUnordered ==
    /\ pc = "folding"
    /\ Len(stream) < MaxUnorderedRows
    /\ \E row \in Rows :
        /\ NamedInOrder(stream, row)
        /\ as_map(row).ok
        /\ stream' = Append(stream, row)
        /\ state' = fold(state, as_map(row).item)
    /\ UNCHANGED <<query, pc, output>>

MapErrorUnordered ==
    /\ pc = "folding"
    /\ Len(stream) < MaxUnorderedRows
    /\ \E row \in Rows :
        /\ NamedInOrder(stream, row)
        /\ ~as_map(row).ok
        /\ stream' = Append(stream, row)
    /\ pc' = "failed"
    /\ UNCHANGED <<query, state, output>>

NextUnordered == FoldRowUnordered \/ MapErrorUnordered \/ Render

\* One execution over rows delivered in any order.
SpecUnordered == Init /\ [][NextUnordered]_vars

\* --------------------------------------------------------------- claims

\* A step that delivered a row which as_map decoded and fold consumed.
FoldedRow == Len(stream') = Len(stream) + 1 /\ pc' = "folding"

IsIntegrated(r) == r.when_integrated # "NULL"

\* C1: once a fold step has stored Invalid or Forked, no later step changes
\* the stored status, whatever the item, and render returns exactly the
\* stored status.
C1_Freeze ==
    [][state.status.some =>
          /\ state'.status = state.status
          /\ output'.some => output'.val.status = state.status.val]_vars

\* C1 witness: a rendered execution whose status was decided as Forked and
\* which folded a rejected integrated record afterwards.
C1_Witness ==
    /\ pc = "rendered"
    /\ state.status.some
    /\ state.status.val.tag = "Forked"
    /\ state.rejected # <<>>
    /\ output.val.status = state.status.val

\* C2: an integrated valid record arriving while the status is undecided
\* decides Forked(incoming seq, incoming hash as first_action, previous hash
\* as second_action) when the last valid entry has the same sequence number,
\* and leaves the status undecided otherwise (also when valid is empty).
C2_ForkDetection ==
    [][(/\ FoldedRow
        /\ Last(stream').validation_status = "Valid"
        /\ IsIntegrated(Last(stream'))
        /\ ~state.status.some) =>
          IF state.valid # <<>>
             /\ Last(state.valid).action_seq = RowSeq(Last(stream'))
          THEN state'.status =
                  Some(Forked([fork_seq |-> RowSeq(Last(stream')),
                               first_action |-> Last(stream').hash,
                               second_action |-> Last(state.valid).hash]))
          ELSE ~state'.status.some]_vars

\* C2 witness: a fork between two different actions was decided, the later
\* arrival being first_action.
C2_Witness ==
    /\ state.status.some
    /\ state.status.val.tag = "Forked"
    /\ Len(state.valid) = 2
    /\ state.status.val.fork.first_action = state.valid[2].hash
    /\ state.status.val.fork.second_action = state.valid[1].hash
    /\ state.valid[1].hash # state.valid[2].hash

\* C3: an integrated rejected record arriving while the status is undecided
\* decides Invalid with that record's sequence number and hash; whenever the
\* rendered status is Invalid, its head is the first element of the rejected
\* partition, which therefore holds that record.
C3_InvalidDecision ==
    [][/\ (/\ FoldedRow
           /\ Last(stream').validation_status = "Rejected"
           /\ IsIntegrated(Last(stream'))
           /\ ~state.status.some) =>
             state'.status =
                Some(Invalid([action_seq |-> RowSeq(Last(stream')),
                              hash |-> Last(stream').hash]))
       /\ (output'.some /\ output'.val.status.tag = "Invalid") =>
             /\ state'.rejected # <<>>
             /\ output'.val.status.head = ChainHead(Head(state'.rejected))]_vars

\* C3 witness: rendered as Invalid after a valid record and two rejected
\* records; the head is the first rejected record, not the last.
C3_Witness ==
    /\ pc = "rendered"
    /\ output.val.status.tag = "Invalid"
    /\ state.valid # <<>>
    /\ Len(state.rejected) = 2
    /\ state.rejected[1] # state.rejected[2]
    /\ output.val.status.head.hash = state.rejected[1].hash

\* C4: a stream with no integrated record, whatever its pending records,
\* renders the status Empty.
C4_EmptyChain ==
    (pc = "rendered" /\ \A i \in 1..Len(stream) : ~IsIntegrated(stream[i]))
        => output.val.status = Empty

\* C4 witness: rendered Empty after pending records of which one is marked
\* Valid and one Rejected.
C4_Witness ==
    /\ pc = "rendered"
    /\ output.val.status = Empty
    /\ \A i \in 1..Len(stream) : ~IsIntegrated(stream[i])
    /\ \E i, j \in 1..Len(stream) :
        /\ stream[i].validation_status = "Valid"
        /\ stream[j].validation_status = "Rejected"

\* C5: when the fold left the status undecided, render gives Empty if the
\* valid and rejected partitions are both empty, and otherwise Valid with the
\* sequence number and hash of the last valid entry, which has the highest
\* sequence number of the valid partition.
C5_StatusResolution ==
    (pc = "rendered" /\ ~state.status.some) =>
        IF state.valid = <<>> /\ state.rejected = <<>>
        THEN output.val.status = Empty
        ELSE /\ state.valid # <<>>
             /\ output.val.status =
                    Valid([action_seq |-> Last(state.valid).action_seq,
                           hash |-> Last(state.valid).hash])
             /\ \A i \in 1..Len(state.valid) :
                    state.valid[i].action_seq
                        <= output.val.status.head.action_seq

\* C5 witness: an undecided fold of valid records with different sequence
\* numbers, rendered Valid.
C5_Witness ==
    /\ pc = "rendered"
    /\ ~state.status.some
    /\ Len(state.valid) >= 2
    /\ state.valid[1].action_seq < Last(state.valid).action_seq
    /\ output.val.status.tag = "Valid"

\* The last elements of the valid, rejected and pending partitions, in that
\* order, leaving out the empty partitions.
LastElements(st) ==
    (IF st.valid = <<>> THEN <<>> ELSE <<Last(st.valid)>>)
        \o (IF st.rejected = <<>> THEN <<>> ELSE <<Last(st.rejected)>>)
        \o (IF st.pending = <<>> THEN <<>> ELSE <<Last(st.pending)>>)

MaxOf(S) == CHOOSE m \in S : \A n \in S : n <= m

\* C6: highest_observed is None exactly when the three partitions are empty;
\* otherwise its sequence number is the maximum over the last elements of the
\* partitions and its hashes are those of the last elements at that maximum,
\* in the order valid, rejected, pending.
C6_HighestObserved ==
    pc = "rendered" =>
        LET lasts == LastElements(state)
            ho == output.val.highest_observed
        IN
        /\ ~ho.some <=>
              (state.valid = <<>> /\ state.rejected = <<>> /\ state.pending = <<>>)
        /\ ho.some =>
              LET m == MaxOf({lasts[i].action_seq : i \in 1..Len(lasts)})
                  top == SelectSeq(lasts, LAMBDA a : a.action_seq = m)
              IN /\ ho.val.action_seq = m
                 /\ ho.val.hash = [i \in 1..Len(top) |-> top[i].hash]

\* C6 witness: three non-empty partitions, the last valid element below the
\* last rejected and pending elements, which tie.
C6_Witness ==
    /\ pc = "rendered"
    /\ state.valid # <<>> /\ state.rejected # <<>> /\ state.pending # <<>>
    /\ Last(state.valid).action_seq < Last(state.rejected).action_seq
    /\ output.val.highest_observed.val.hash =
          <<Last(state.rejected).hash, Last(state.pending).hash>>

\* C7: valid_activity is NotRequested iff include_valid_activity is false,
\* rejected_activity is NotRequested iff include_rejected_activity is false,
\* and a requested list is a Hashes list, empty when nothing matched.
C7_Gating ==
    pc = "rendered" =>
        /\ output.val.valid_activity = NotRequested
              <=> ~query.options.include_valid_activity
        /\ output.val.rejected_activity = NotRequested
              <=> ~query.options.include_rejected_activity
        /\ query.options.include_valid_activity =>
              /\ output.val.valid_activity.tag = "Hashes"
              /\ Len(output.val.valid_activity.items) =
                    Cardinality({i \in 1..Len(state.valid) :
                                    in_range(query.filter, state.valid[i])})
        /\ query.options.include_rejected_activity =>
              /\ output.val.rejected_activity.tag = "Hashes"
              /\ Len(output.val.rejected_activity.items) =
                    Cardinality({i \in 1..Len(state.rejected) :
                                    in_range(query.filter, state.rejected[i])})

\* C7 witness: valid records exist and were not requested, while the
\* requested rejected list is empty.
C7_Witness ==
    /\ pc = "rendered"
    /\ state.valid # <<>>
    /\ output.val.valid_activity = NotRequested
    /\ output.val.rejected_activity = Hashes(<<>>)

NonDecreasing(items) ==
    \A i, j \in 1..Len(items) : i < j => items[i][1] <= items[j][1]

\* C8: the rendered valid-activity and rejected-activity lists are
\* non-decreasing in sequence number.
C8_Ordering ==
    pc = "rendered" =>
        /\ output.val.valid_activity.tag = "Hashes" =>
              NonDecreasing(output.val.valid_activity.items)
        /\ output.val.rejected_activity.tag = "Hashes" =>
              NonDecreasing(output.val.rejected_activity.items)

\* C8 witness: a rendered valid-activity list with records of different
\* sequence numbers, under a filter with a range restriction.
C8_Witness ==
    /\ pc = "rendered"
    /\ query.filter.bounded
    /\ output.val.valid_activity.tag = "Hashes"
    /\ Len(output.val.valid_activity.items) = 2
    /\ output.val.valid_activity.items[1][1]
          < output.val.valid_activity.items[2][1]

\* C10: a row that cannot be decoded makes as_map return an error; the row
\* is the last one delivered, the query has failed and no response exists.
C10_DecodeFailure ==
    \A i \in 1..Len(stream) :
        stream[i].undecodable # "none" =>
            /\ ~as_map(stream[i]).ok
            /\ i = Len(stream)
            /\ pc = "failed"
            /\ ~output.some

\* C10 witness: the query failed on its third row with records already
\* accumulated in the state.
C10_Witness ==
    /\ pc = "failed"
    /\ Len(stream) = 3
    /\ Last(stream).undecodable = "when_integrated"
    /\ state.valid # <<>>
    /\ ~output.some


\* A sequence range whose start lies after its end.
Malformed(filter) == filter.bounded /\ filter.lo > filter.hi

Decodable(r) == r.undecodable = "none"

IsValidIntegrated(r) ==
    Decodable(r) /\ IsIntegrated(r) /\ r.validation_status = "Valid"

IsRejectedIntegrated(r) ==
    Decodable(r) /\ IsIntegrated(r) /\ r.validation_status = "Rejected"

IsPending(r) == Decodable(r) /\ ~IsIntegrated(r)

\* The actions of the rows that satisfy P, in arrival order.
Collect(rows, P(_)) ==
    LET kept == SelectSeq(rows, P)
    IN [i \in 1..Len(kept) |-> ActionHashed(kept[i].hash)]

IsPrefix(s, t) == Len(s) <= Len(t) /\ \A i \in 1..Len(s) : s[i] = t[i]

\* C12: after every step the valid, rejected and pending partitions are the
\* arrival-order subsequences of the (Valid, Integrated), (Rejected,
\* Integrated) and Pending items delivered so far, frozen status or not; a
\* partition only grows at its end; an integrated item of any other status
\* leaves the whole state unchanged.
C12_Partitions ==
    [][/\ state'.valid = Collect(stream', IsValidIntegrated)
       /\ state'.rejected = Collect(stream', IsRejectedIntegrated)
       /\ state'.pending = Collect(stream', IsPending)
       /\ IsPrefix(state.valid, state'.valid)
       /\ IsPrefix(state.rejected, state'.rejected)
       /\ IsPrefix(state.pending, state'.pending)
       /\ (/\ FoldedRow
           /\ IsIntegrated(Last(stream'))
           /\ Last(stream').validation_status \notin {"Valid", "Rejected"})
             => state' = state]_vars

\* C12 witness: records appended to the valid and rejected partitions after
\* the status was frozen by the first rejected record.
C12_Witness ==
    /\ Len(stream) = 3
    /\ IsRejectedIntegrated(stream[1])
    /\ state.status.some
    /\ Len(state.rejected) = 2
    /\ Len(state.valid) = 1


\* The state after folding the items of decodable rows, one by one.
RECURSIVE FoldAll(_, _)
FoldAll(st, rows) ==
    IF rows = <<>> THEN st
    ELSE FoldAll(fold(st, as_map(Head(rows)).item), Tail(rows))

\* The stream with its Pending rows taken out.
WithoutPending(rows) ==
    SelectSeq(rows, LAMBDA r : Decodable(r) /\ IsIntegrated(r))

\* C13: folding a Pending item, whatever its validation status, changes
\* neither the status nor the valid or rejected partition; hence the rendered
\* status, valid_activity and rejected_activity are those of the same stream
\* without its Pending rows, and streams that differ only in their Pending
\* rows agree on them.
C13_PendingNoInfluence ==
    [][/\ (FoldedRow /\ ~IsIntegrated(Last(stream'))) =>
             /\ state'.status = state.status
             /\ state'.valid = state.valid
             /\ state'.rejected = state.rejected
       /\ output'.some =>
             LET bare == render(query, FoldAll(init_fold, WithoutPending(stream')))
             IN /\ output'.val.status = bare.status
                /\ output'.val.valid_activity = bare.valid_activity
                /\ output'.val.rejected_activity = bare.rejected_activity]_vars

\* C13 witness: a response rendered Valid from an integrated valid record
\* and two Pending rows, one marked Valid and one marked Rejected, whose
\* highest observed lies above the valid head.
C13_Witness ==
    /\ pc = "rendered"
    /\ Len(stream) = 3
    /\ Len(state.pending) = 2
    /\ \E i, j \in 1..3 :
          /\ IsPending(stream[i]) /\ stream[i].validation_status = "Valid"
          /\ IsPending(stream[j]) /\ stream[j].validation_status = "Rejected"
    /\ output.val.status.tag = "Valid"
    /\ output.val.highest_observed.val.action_seq
          > output.val.status.head.action_seq


\* C14: the fold starts undecided; the stored status is always undecided,
\* Invalid or Forked; the stored status changes only in a fold step, from
\* undecided to Invalid or Forked; a rendered Valid or Empty comes from an
\* undecided stored status.
C14_StatusMachine ==
    /\ ~state.status.some
    /\ [][/\ state'.status.some =>
                state'.status.val.tag \in {"Invalid", "Forked"}
          /\ state'.status # state.status =>
                (FoldedRow /\ ~state.status.some /\ state'.status.some)
          /\ (output'.some /\ output'.val.status.tag \in {"Valid", "Empty"}) =>
                (~state'.status.some /\ pc' = "rendered")]_vars

\* C14 witness: a response rendered Valid from an undecided stored status
\* after three integrated records were folded, a status other than Valid or
\* Rejected among them.
C14_Witness ==
    /\ pc = "rendered"
    /\ Len(stream) = 3
    /\ \A i \in 1..3 : Decodable(stream[i]) /\ IsIntegrated(stream[i])
    /\ Len(state.valid) = 2
    /\ ~state.status.some
    /\ output.val.status.tag = "Valid"


\* C15: under the delivery order of query(), valid records that share a
\* sequence number stand next to each other in the valid partition, and a
\* rendered Valid status means that the stream holds no integrated rejected
\* record and no two integrated valid records with the same sequence number.
C15_ValidSound ==
    /\ \A i, j \in 1..Len(state.valid) :
          (i < j /\ state.valid[i].action_seq = state.valid[j].action_seq) =>
              \A k \in i..j :
                  state.valid[k].action_seq = state.valid[i].action_seq
    /\ (pc = "rendered" /\ output.val.status.tag = "Valid") =>
          /\ \A i \in 1..Len(stream) : ~IsRejectedIntegrated(stream[i])
          /\ \A i, j \in 1..Len(stream) :
                (/\ i < j
                 /\ IsValidIntegrated(stream[i])
                 /\ IsValidIntegrated(stream[j]))
                    => RowSeq(stream[i]) # RowSeq(stream[j])

\* C15 witness: rendered Valid from two integrated valid records with
\* different sequence numbers and a Pending row marked Rejected between them.
C15_Witness ==
    /\ pc = "rendered"
    /\ output.val.status.tag = "Valid"
    /\ Len(stream) = 3
    /\ IsValidIntegrated(stream[1])
    /\ IsPending(stream[2]) /\ stream[2].validation_status = "Rejected"
    /\ IsValidIntegrated(stream[3])


\* C16 as stated: a Forked status names two different records, first_action
\* differing from second_action.
C16_ForkDistinct ==
    (state.status.some /\ state.status.val.tag = "Forked") =>
        state.status.val.fork.first_action
            # state.status.val.fork.second_action

\* C17 as stated: the rendered status is Empty only if the stream holds no
\* integrated record at all, whatever its validation status.
C17_EmptyNoIntegrated ==
    (pc = "rendered" /\ output.val.status = Empty) =>
        \A i \in 1..Len(stream) : ~(Decodable(stream[i]) /\ IsIntegrated(stream[i]))

\* C17 as amended: the rendered status is Empty only if the stream holds no
\* integrated record whose validation status is Valid or Rejected; integrated
\* records of any other status, or of none, are ignored by the fold and may be
\* present.
C17_EmptyNoJudged ==
    (pc = "rendered" /\ output.val.status = Empty) =>
        \A i \in 1..Len(stream) :
            ~IsValidIntegrated(stream[i]) /\ ~IsRejectedIntegrated(stream[i])

\* C17 witness: rendered Empty although the stream holds integrated records,
\* one without validation status and one of a status other than Valid or
\* Rejected.
C17_Witness ==
    /\ pc = "rendered"
    /\ output.val.status = Empty
    /\ \E i, j \in 1..Len(stream) :
          /\ IsIntegrated(stream[i]) /\ stream[i].validation_status = "NULL"
          /\ IsIntegrated(stream[j]) /\ stream[j].validation_status = "Abandoned"


\* C19: whatever the order of the rows, an undecided state has an empty
\* rejected partition, so compute_chain_status never reaches the expect on
\* an empty valid partition and render does not panic.
C19_NoPanic ==
    /\ ~state.status.some => state.rejected = <<>>
    /\ compute_chain_status(state) # Panic
    /\ pc # "panicked"

\* C19 witness: rendered Valid from an undecided state whose valid records
\* arrived in descending order, after a Pending row marked Rejected.
C19_Witness ==
    /\ pc = "rendered"
    /\ ~state.status.some
    /\ Len(state.valid) = 2
    /\ state.valid[1].action_seq > state.valid[2].action_seq
    /\ state.pending # <<>>
    /\ output.val.status.tag = "Valid"


\* Sequence numbers of every record held in the three partitions.
AllSeqs(st) ==
    {st.valid[i].action_seq : i \in 1..Len(st.valid)}
        \cup {st.rejected[i].action_seq : i \in 1..Len(st.rejected)}
        \cup {st.pending[i].action_seq : i \in 1..Len(st.pending)}

\* C18: for rows delivered in non-decreasing sequence order, whenever some
\* partition holds a record, highest_observed is present and its sequence
\* number is the maximum over every record of the three partitions.
C18_Watermark ==
    (pc = "rendered" /\ AllSeqs(state) # {}) =>
        /\ output.val.highest_observed.some
        /\ output.val.highest_observed.val.action_seq = MaxOf(AllSeqs(state))

\* C18 witness: a partition holding records of two sequence numbers, the
\* watermark at the greater one.
C18_Witness ==
    /\ pc = "rendered"
    /\ Len(state.valid) = 2
    /\ state.valid[1].action_seq < state.valid[2].action_seq
    /\ state.pending # <<>>
    /\ output.val.highest_observed.some
    /\ output.val.highest_observed.val.action_seq = state.valid[2].action_seq

\* C20: for rows delivered in non-decreasing sequence order and a query that
\* requests the status, a Valid or Invalid verdict comes with a watermark at
\* or above the head, a Forked verdict with a watermark at or above fork_seq,
\* and the watermark is absent only when the status is Empty.
C20_WatermarkCoversVerdict ==
    pc = "rendered" =>
        LET status == output.val.status
            ho == output.val.highest_observed
        IN
        /\ status.tag \in {"Valid", "Invalid"} =>
              ho.some /\ ho.val.action_seq >= status.head.action_seq
        /\ status.tag = "Forked" =>
              ho.some /\ ho.val.action_seq >= status.fork.fork_seq
        /\ ~ho.some => status.tag = "Empty"

\* C20 witness: an Invalid verdict whose head lies strictly below the
\* watermark.
C20_Witness ==
    /\ pc = "rendered"
    /\ output.val.status.tag = "Invalid"
    /\ output.val.highest_observed.some
    /\ output.val.highest_observed.val.action_seq
           > output.val.status.head.action_seq

====
